---- MODULE Spec2Model ----
(***************************************************************************)
(* The authentication core of the DocuSage backend: the users table, the   *)
(* password hasher, the JWT codec, and the register / login / resolve      *)
(* handlers of routers/auth.py, with concurrent registrations.             *)
(*                                                                         *)
(* Time is counted in minutes.  Every awaited database call may raise      *)
(* SQLAlchemyError (the handlers catch it), which the actions take as an   *)
(* input db_ok.                                                            *)
(***************************************************************************)
EXTENDS Integers, FiniteSets, TLC

\* ---------------------------------------------------------------- inputs
Emails == {"a@b.com", "u@e.com"}
Passwords == {"pw", "pw2"}
\* The register requests of a behaviour, in order of arrival; they run
\* concurrently.
RegIds == {1, 2}
\* The random salt drawn by the hash call of each register request.
Salts == <<"s1", "s2">>

\* Python's None where a row, a token, a body or a timedelta is expected.
None == [none |-> TRUE]
\* payload.get("sub") of a payload without the claim.
NoSub == "<no sub>"
\* expires_delta arguments of create_access_token: None, or a timedelta of
\* so many minutes.
timedelta(minutes) == [minutes |-> minutes]
Deltas == {None, timedelta(0), timedelta(1), timedelta(-1)}

\* ---------------------------------------------------------------- bounds
\* How many single minutes the clock is followed for, at the start and
\* again once a default validity window has passed.
MaxMinutes == 1

\* ---------------------------------------------------------------- settings
SECRET_KEY == "please-change-this-to-a-long-random-string-in-next-sprint"
ACCESS_TOKEN_EXPIRE_MINUTES == 10080
\* Values the environment may give the ALGORITHM setting; python-jose signs
\* and verifies with the supported ones only.
AlgorithmSettings == {"HS256", "HS999"}
SupportedAlgorithms == {"HS256"}

HTTP_200_OK == 200
HTTP_400_BAD_REQUEST == 400
HTTP_401_UNAUTHORIZED == 401
HTTP_500_INTERNAL_SERVER_ERROR == 500

VARIABLES
    users,      \* the users table: a set of rows [id, email, password_hash]
    now,        \* datetime.utcnow(), in minutes
    algorithm,  \* auth_settings.ALGORITHM, fixed at process start
    reg,        \* the register requests, each at its await point
    last        \* the login / resolve / issue call answered against the
                \* table and the clock as they are now, and the bearer
                \* token the client carries

vars == <<users, now, algorithm, reg, last>>

\* ---------------------------------------------------------------- responses
\* An HTTP outcome: status, the client-visible detail, the body (a token, an
\* identity or None) and the cause written to the server log only.
Response(status, detail, body, cause) ==
    [status |-> status, detail |-> detail, body |-> body, cause |-> cause]

HTTPException(status, detail, cause) == Response(status, detail, None, cause)

\* No answer yet.
Pending == [status |-> 0, detail |-> "", body |-> None, cause |-> ""]

\* ---------------------------------------------------------------- User Directory
\* select(models.User).where(models.User.email == email) ... scalar_one_or_none()
find_by_email(email) ==
    IF \E u \in users : u.email = email
    THEN CHOOSE u \in users : u.email = email
    ELSE None

\* The id the store assigns to the next inserted row.
next_id == Cardinality(users) + 1

\* A users table whose email column carries no unique constraint.
UniqueViolation_Unconstrained(email) == FALSE

\* The unique=True constraint on users.email: an insert of a taken email
\* raises IntegrityError (a SQLAlchemyError).
UniqueViolation(email) == \E u \in users : u.email = email

\* ---------------------------------------------------------------- Credential Hasher
\* pwd_context.hash: an argon2 string carrying its salt and the digest of
\* (salt, password).
Digest(salt, password) == <<"argon2id", salt, password>>

get_password_hash(password, salt) ==
    [scheme |-> "argon2", salt |-> salt, digest |-> Digest(salt, password)]

\* A verification that accepts every password.
verify_password_AcceptAll(plain_password, hashed_password) == TRUE

\* pwd_context.verify: re-hash the password under the salt of the hash.
verify_password(plain_password, hashed_password) ==
    hashed_password.digest = Digest(hashed_password.salt, plain_password)

\* ---------------------------------------------------------------- Token Codec
Sign(key, alg, claims) == <<"HMAC", key, alg, claims>>

\* A bearer string that is no compact JWT.
Malformed == [garbage |-> "not-a-jwt"]

\* jwt.encode: None when the algorithm is not one the library supports
\* (it raises), the compact token otherwise.
jwt_encode(claims, key, alg) ==
    IF alg \notin SupportedAlgorithms
    THEN None
    ELSE [header |-> [alg |-> alg], claims |-> claims,
          signature |-> Sign(key, alg, claims)]

\* An exp check that already refuses the token in the minute it expires.
Expired_Inclusive(claims, t) == claims.exp <= t

\* The exp check of jwt.decode: ExpiredSignatureError when exp is before the
\* current time.
Expired(claims, t) == claims.exp < t

\* jwt.decode(token, key, algorithms=[alg]) at time t: the claims, or the
\* JWTError raised.
jwt_decode(token, key, alg, t) ==
    IF token = Malformed
    THEN [ok |-> FALSE, error |-> "JWTError: malformed"]
    ELSE IF token.header.alg # alg \/ alg \notin SupportedAlgorithms
    THEN [ok |-> FALSE, error |-> "JWTError: algorithm"]
    ELSE IF token.signature # Sign(key, alg, token.claims)
    THEN [ok |-> FALSE, error |-> "JWTError: signature"]
    ELSE IF Expired(token.claims, t)
    THEN [ok |-> FALSE, error |-> "ExpiredSignatureError"]
    ELSE [ok |-> TRUE, payload |-> token.claims]

\* The expiration create_access_token computes: `if expires_delta:` takes
\* the default for None and for every falsy delta, timedelta(0) included.
Expire(expires_delta, t) ==
    IF expires_delta # None /\ expires_delta.minutes # 0
    THEN t + expires_delta.minutes
    ELSE t + ACCESS_TOKEN_EXPIRE_MINUTES

\* create_access_token(data, expires_delta) at time t: a 200 outcome whose
\* body is the token, or the 500 raised when encoding fails.
create_access_token(sub, expires_delta, t) ==
    LET to_encode == [sub |-> sub, exp |-> Expire(expires_delta, t)]
        encoded_jwt == jwt_encode(to_encode, SECRET_KEY, algorithm)
    IN  IF encoded_jwt = None
        THEN HTTPException(HTTP_500_INTERNAL_SERVER_ERROR,
                 "Server security mechanism failed. Cannot issue token.",
                 "jwt.encode raised")
        ELSE Response(HTTP_200_OK, "", encoded_jwt, "token issued")

\* ---------------------------------------------------------------- Authenticator
\* A validator that returns whatever payload.get("sub") gave, a missing sub
\* included.
validate_token_NoSubCheck(token, t) ==
    LET decoded == jwt_decode(token, SECRET_KEY, algorithm, t)
    IN  IF ~decoded.ok
        THEN HTTPException(HTTP_401_UNAUTHORIZED,
                 "Authentication failed. Token is invalid or expired.",
                 decoded.error)
        ELSE Response(HTTP_200_OK, "", [email |-> decoded.payload.sub],
                 "token validated")

\* auth_utils.get_current_user(token) at time t: {"email": sub}, or the 401
\* it raises for a token that does not decode or carries no sub.
validate_token(token, t) ==
    LET decoded == jwt_decode(token, SECRET_KEY, algorithm, t)
    IN  IF ~decoded.ok
        THEN HTTPException(HTTP_401_UNAUTHORIZED,
                 "Authentication failed. Token is invalid or expired.",
                 decoded.error)
        ELSE IF decoded.payload.sub = NoSub
        THEN HTTPException(HTTP_401_UNAUTHORIZED,
                 "Authentication failed. Token is invalid or expired.",
                 "sub claim missing")
        ELSE Response(HTTP_200_OK, "", [email |-> decoded.payload.sub],
                 "token validated")

\* A resolver that trusts the validated token and skips the users table.
get_current_user_NoLookup(token, db_ok, t) ==
    LET token_data == validate_token(token, t)
    IN  IF token_data.status # HTTP_200_OK
        THEN token_data
        ELSE Response(HTTP_200_OK, "",
                 [email |-> token_data.body.email, id |-> 0], "user resolved")

\* routers.auth.get_current_user(token, db) at time t: the 401 of
\* auth_utils re-raised, the 401 for a validated token without an email,
\* the 500 of a failed query, the 401 of a user that is not in the table,
\* or {'email', 'id'} of the row.
get_current_user(token, db_ok, t) ==
    LET token_data == validate_token(token, t)
    IN  IF token_data.status # HTTP_200_OK
        THEN token_data
        ELSE IF token_data.body.email = NoSub
        THEN HTTPException(HTTP_401_UNAUTHORIZED,
                 "Could not validate credentials",
                 "email missing after validation")
        ELSE IF ~db_ok
        THEN HTTPException(HTTP_500_INTERNAL_SERVER_ERROR,
                 "Database error during user lookup for authenticated request.",
                 "SQLAlchemyError at lookup")
        ELSE LET user == find_by_email(token_data.body.email)
             IN  IF user = None
                 THEN HTTPException(HTTP_401_UNAUTHORIZED,
                          "Could not validate credentials",
                          "user not found")
                 ELSE Response(HTTP_200_OK, "",
                          [email |-> user.email, id |-> user.id],
                          "user resolved")

\* A login that tells the caller which check failed.
login_for_access_token_Leaky(email, password, db_ok, t) ==
    IF ~db_ok
    THEN HTTPException(HTTP_500_INTERNAL_SERVER_ERROR,
             "Database error during user lookup. See backend logs.",
             "SQLAlchemyError at lookup")
    ELSE LET user == find_by_email(email)
         IN  IF user = None
             THEN HTTPException(HTTP_401_UNAUTHORIZED,
                      "User not found", "user not found")
             ELSE IF ~verify_password(password, user.password_hash)
             THEN HTTPException(HTTP_401_UNAUTHORIZED,
                      "Incorrect email or password", "password mismatch")
             ELSE create_access_token(user.email, None, t)

\* login_for_access_token(user_data, db) at time t.
login_for_access_token(email, password, db_ok, t) ==
    IF ~db_ok
    THEN HTTPException(HTTP_500_INTERNAL_SERVER_ERROR,
             "Database error during user lookup. See backend logs.",
             "SQLAlchemyError at lookup")
    ELSE LET user == find_by_email(email)
         IN  IF user = None
             THEN HTTPException(HTTP_401_UNAUTHORIZED,
                      "Incorrect email or password", "user not found")
             ELSE IF ~verify_password(password, user.password_hash)
             THEN HTTPException(HTTP_401_UNAUTHORIZED,
                      "Incorrect email or password", "password mismatch")
             ELSE create_access_token(user.email, None, t)

\* ---------------------------------------------------------------- state
IdleReg ==
    [pc |-> "idle", email |-> "", password_hash |-> None, row_id |-> 0,
     resp |-> Pending]

NoCall ==
    [op |-> "none", email |-> "", password |-> "", token |-> None,
     delta |-> None, db_ok |-> TRUE, resp |-> Pending]

IsToken(x) == "signature" \in DOMAIN x

\* Bearer strings a client can present without the server's key.
ForgedTokens ==
    {Malformed,
     [header |-> [alg |-> "HS256"],
      claims |-> [sub |-> "a@b.com", exp |-> 3 * ACCESS_TOKEN_EXPIRE_MINUTES],
      signature |-> Sign("attacker-key", "HS256",
          [sub |-> "a@b.com", exp |-> 3 * ACCESS_TOKEN_EXPIRE_MINUTES])]}

\* The token a client carries away from a call: the one it was given, else
\* the one it presented.
Carried(call) == IF IsToken(call.resp.body) THEN call.resp.body ELSE call.token

\* A write to the table or a move of the clock makes the answered call a
\* thing of the past: the client keeps its token only.
Retire(call) == [NoCall EXCEPT !.token = Carried(call)]

\* The bearer strings a client can present: tokens the server returned,
\* and forged ones.
Presentable ==
    {reg[i].resp.body : i \in {r \in DOMAIN reg : IsToken(reg[r].resp.body)}}
        \cup ({Carried(last)} \ {None}) \cup ForgedTokens

Init ==
    /\ users = {}
    /\ now = 0
    /\ algorithm \in AlgorithmSettings
    /\ reg = [i \in RegIds |-> IdleReg]
    /\ last = NoCall

\* ---------------------------------------------------------------- register_user
\* A register that leaves the existence check out and relies on the
\* constraint alone.
RegisterCheck_NoCheck(i, email, password, salt, db_ok) ==
    /\ reg[i].pc = "idle"
    /\ \A r \in RegIds : r < i => reg[r].pc # "idle"
    /\ reg' = [reg EXCEPT ![i] =
          [@ EXCEPT !.pc = "commit", !.email = email,
               !.password_hash = get_password_hash(password, salt)]]
    /\ UNCHANGED <<users, now, algorithm, last>>

\* Step 1 and 2: the existence check, then the password hash.
RegisterCheck(i, email, password, salt, db_ok) ==
    /\ reg[i].pc = "idle"
    /\ \A r \in RegIds : r < i => reg[r].pc # "idle"
    /\ reg' = [reg EXCEPT ![i] =
          IF ~db_ok
          THEN [@ EXCEPT !.pc = "done", !.email = email,
                   !.resp = HTTPException(HTTP_500_INTERNAL_SERVER_ERROR,
                       "Database error during user existence check. See backend logs.",
                       "SQLAlchemyError at check")]
          ELSE IF find_by_email(email) # None
          THEN [@ EXCEPT !.pc = "done", !.email = email,
                   !.resp = HTTPException(HTTP_400_BAD_REQUEST,
                       "Email already registered", "existing user")]
          ELSE [@ EXCEPT !.pc = "commit", !.email = email,
                   !.password_hash = get_password_hash(password, salt)]]
    /\ UNCHANGED <<users, now, algorithm, last>>

\* A handler that takes the IntegrityError of a taken email for success and
\* goes on to return a token.
RegisterCommit_SwallowIntegrity(i, commit_ok, refresh_ok) ==
    /\ reg[i].pc = "commit"
    /\ IF ~commit_ok
       THEN /\ users' = users
            /\ reg' = [reg EXCEPT ![i].pc = "done",
                   ![i].resp = HTTPException(HTTP_500_INTERNAL_SERVER_ERROR,
                       "Registration failed due to a critical database error.",
                       "OperationalError at commit")]
       ELSE /\ users' = IF UniqueViolation(reg[i].email) THEN users
                        ELSE users \cup
                            {[id |-> next_id, email |-> reg[i].email,
                              password_hash |-> reg[i].password_hash]}
            /\ reg' = [reg EXCEPT ![i].pc = "done",
                   ![i].resp = create_access_token(reg[i].email, None, now)]
    /\ last' = IF users' = users THEN last ELSE Retire(last)
    /\ UNCHANGED <<now, algorithm>>

\* Step 3 and 4.  db.commit raises when the store is down or the email is
\* taken: rollback, 500.  Otherwise the row is inserted; db.refresh may
\* still raise into the same handler (whose rollback finds nothing to
\* undo); if it does not, the token is created and returned.
\* A register that issues the token inside the create transaction: when the
\* token cannot be issued the insert is rolled back with it.
RegisterCommit_IssueInTransaction(i, commit_ok, refresh_ok) ==
    LET resp == IF ~commit_ok \/ UniqueViolation(reg[i].email)
                THEN HTTPException(HTTP_500_INTERNAL_SERVER_ERROR,
                         "Registration failed due to a critical database error.",
                         IF commit_ok THEN "IntegrityError at commit"
                                      ELSE "OperationalError at commit")
                ELSE IF ~refresh_ok
                THEN HTTPException(HTTP_500_INTERNAL_SERVER_ERROR,
                         "Registration failed due to a critical database error.",
                         "OperationalError at refresh")
                ELSE create_access_token(reg[i].email, None, now)
        written == resp.cause = "OperationalError at refresh"
                       \/ IsToken(resp.body)
    IN  /\ reg[i].pc = "commit"
        /\ users' = IF written
                    THEN users \cup
                             {[id |-> next_id, email |-> reg[i].email,
                               password_hash |-> reg[i].password_hash]}
                    ELSE users
        /\ reg' = [reg EXCEPT ![i].pc = "done",
                       ![i].row_id = IF written THEN next_id ELSE 0,
                       ![i].resp = resp]
        /\ last' = IF users' = users THEN last ELSE Retire(last)
        /\ UNCHANGED <<now, algorithm>>

RegisterCommit(i, commit_ok, refresh_ok) ==
    /\ reg[i].pc = "commit"
    /\ IF ~commit_ok \/ UniqueViolation(reg[i].email)
       THEN /\ users' = users
            /\ reg' = [reg EXCEPT ![i].pc = "done",
                   ![i].resp = HTTPException(HTTP_500_INTERNAL_SERVER_ERROR,
                       "Registration failed due to a critical database error.",
                       IF commit_ok THEN "IntegrityError at commit"
                                    ELSE "OperationalError at commit")]
       ELSE /\ users' = users \cup
                   {[id |-> next_id, email |-> reg[i].email,
                     password_hash |-> reg[i].password_hash]}
            /\ reg' = [reg EXCEPT ![i].pc = "done", ![i].row_id = next_id,
                   ![i].resp =
                       IF ~refresh_ok
                       THEN HTTPException(HTTP_500_INTERNAL_SERVER_ERROR,
                                "Registration failed due to a critical database error.",
                                "OperationalError at refresh")
                       ELSE create_access_token(reg[i].email, None, now)]
    /\ last' = IF users' = users THEN last ELSE Retire(last)
    /\ UNCHANGED <<now, algorithm>>

\* ---------------------------------------------------------------- login, resolve, issue
\* A login that re-hashes the password of the user it let in and writes
\* the new hash to the row.
Login_Rehash(email, password, db_ok) ==
    LET resp == login_for_access_token(email, password, db_ok, now)
    IN  /\ last' = [NoCall EXCEPT !.op = "login", !.email = email,
                       !.password = password, !.db_ok = db_ok, !.resp = resp]
        /\ users' = IF IsToken(resp.body)
                    THEN {IF u.email = email
                          THEN [u EXCEPT !.password_hash =
                                    get_password_hash(password, "rehash")]
                          ELSE u : u \in users}
                    ELSE users
        /\ UNCHANGED <<now, algorithm, reg>>

Login(email, password, db_ok) ==
    LET resp == login_for_access_token(email, password, db_ok, now)
    IN  /\ last' = [NoCall EXCEPT !.op = "login", !.email = email,
                       !.password = password, !.db_ok = db_ok, !.resp = resp]
        /\ UNCHANGED <<users, now, algorithm, reg>>

Resolve(token, db_ok) ==
    /\ last' = [NoCall EXCEPT !.op = "resolve", !.token = token,
                   !.db_ok = db_ok \/ validate_token(token, now).status # HTTP_200_OK,
                   !.resp = get_current_user(token, db_ok, now)]
    /\ UNCHANGED <<users, now, algorithm, reg>>

\* A direct call of create_access_token(data, expires_delta).
IssueToken(sub, expires_delta) ==
    LET resp == create_access_token(sub, expires_delta, now)
    IN  /\ last' = [NoCall EXCEPT !.op = "issue", !.email = sub,
                       !.delta = expires_delta, !.resp = resp]
        /\ UNCHANGED <<users, now, algorithm, reg>>

\* ---------------------------------------------------------------- clock
\* The clock is followed until one default validity window and MaxMinutes
\* minutes have passed.
Horizon == ACCESS_TOKEN_EXPIRE_MINUTES + MaxMinutes

\* The clock moves by a minute or by the default validity window.
Tick(d) ==
    /\ now + d <= Horizon
    /\ d = 1 => now % ACCESS_TOKEN_EXPIRE_MINUTES < MaxMinutes
    /\ now' = now + d
    /\ last' = Retire(last)
    /\ UNCHANGED <<users, algorithm, reg>>

Next ==
    \/ \E i \in RegIds, email \in Emails, password \in Passwords,
          db_ok \in BOOLEAN :
          RegisterCheck(i, email, password, Salts[i], db_ok)
    \/ \E i \in RegIds, commit_ok \in BOOLEAN, refresh_ok \in BOOLEAN :
          RegisterCommit(i, commit_ok, refresh_ok)
    \/ \E email \in Emails, password \in Passwords, db_ok \in BOOLEAN :
          Login(email, password, db_ok)
    \/ \E token \in Presentable, db_ok \in BOOLEAN :
          Resolve(token, db_ok)
    \/ \E sub \in Emails \cup {NoSub}, expires_delta \in Deltas :
          IssueToken(sub, expires_delta)
    \/ \E d \in {1, ACCESS_TOKEN_EXPIRE_MINUTES} : Tick(d)

Spec == Init /\ [][Next]_vars

\* ---------------------------------------------------------------- properties
RegistrationFailed == "Registration failed due to a critical database error."

\* The request passed the existence check and went on to the write.
PassedCheck(i) == reg[i].password_hash # None

\* The request's insert was committed.
Created(i) == reg[i].row_id # 0

\* Two register requests for one email that both passed the existence
\* check (so neither had written when the other checked) and both finished.
Raced(i, j) ==
    /\ i # j
    /\ reg[i].pc = "done" /\ reg[j].pc = "done"
    /\ PassedCheck(i) /\ PassedCheck(j)
    /\ reg[i].email = reg[j].email

\* C1: in every reachable state the users table holds at most one row per
\* email, whatever register, login and resolve calls ran and however the
\* register calls interleaved.
C1_OneUserPerEmail ==
    \A u \in users, v \in users : u.email = v.email => u = v

\* Two registrations for one email raced, and the table holds its row.
C1_Witness ==
    \E i \in RegIds, j \in RegIds :
        /\ Raced(i, j) /\ Created(i)
        /\ last.op = "resolve" /\ last.resp.status = HTTP_200_OK

\* C2 as stated: of two register calls for one email that both passed the
\* existence check, exactly one create succeeds; the other write fails with
\* the persistence error, its call returns no token, and the stored row
\* keeps the winner's hash.
C2_ExactlyOneCreate ==
    \A i \in RegIds, j \in RegIds :
        Raced(i, j) =>
            /\ Created(i) # Created(j)
            /\ Created(i) =>
                  /\ reg[j].resp.status = HTTP_500_INTERNAL_SERVER_ERROR
                  /\ reg[j].resp.detail = RegistrationFailed
                  /\ reg[j].resp.body = None
                  /\ \A u \in users : u.email = reg[i].email =>
                        u.password_hash = reg[i].password_hash

\* C2 as amended: of two register calls for one email that both passed the
\* existence check, at most one create succeeds, and exactly one unless a
\* store failure (not the constraint) made a commit fail; every call whose
\* write failed gets the persistence error and no token; the row, if
\* there is one, is the winner's, with the winner's hash.
C2_AtMostOneCreate ==
    \A i \in RegIds, j \in RegIds :
        Raced(i, j) =>
            /\ ~(Created(i) /\ Created(j))
            /\ ( /\ reg[i].resp.cause # "OperationalError at commit"
                 /\ reg[j].resp.cause # "OperationalError at commit" )
                  => (Created(i) \/ Created(j))
            /\ ~Created(j) =>
                  /\ reg[j].resp.status = HTTP_500_INTERNAL_SERVER_ERROR
                  /\ reg[j].resp.detail = RegistrationFailed
                  /\ reg[j].resp.body = None
            /\ Created(i) =>
                  \A u \in users : u.email = reg[i].email =>
                      /\ u.id = reg[i].row_id
                      /\ u.password_hash = reg[i].password_hash
            /\ (~Created(i) /\ ~Created(j)) =>
                  \A u \in users : u.email # reg[i].email

\* The race ran to its end: one request created the row and got its token,
\* the other lost to the constraint.
C2_Witness ==
    \E i \in RegIds, j \in RegIds :
        /\ Raced(i, j)
        /\ Created(i) /\ IsToken(reg[i].resp.body)
        /\ reg[j].resp.cause = "IntegrityError at commit"
        /\ reg[j].password_hash # reg[i].password_hash

\* What the client sees of an outcome: everything but the server's log.
ClientView(resp) ==
    [status |-> resp.status, detail |-> resp.detail, body |-> resp.body]

Range(f) == {f[x] : x \in DOMAIN f}

\* The users table holds a row for the email whose hash is the hash of this
\* password under one of the salts.
Registered(email, password) ==
    \E u \in users :
        /\ u.email = email
        /\ \E salt \in Range(Salts) :
              u.password_hash = get_password_hash(password, salt)

InvalidCredentials ==
    [status |-> HTTP_401_UNAUTHORIZED, detail |-> "Incorrect email or password",
     body |-> None]

\* C3 as stated: login returns a token exactly when the table holds a user
\* of that email whose stored hash is the hash of the password; every other
\* login fails with the invalid-credentials error; a returned token has
\* sub = the email.
C3_LoginIffCredentials ==
    last.op = "login" =>
        /\ IsToken(last.resp.body) <=> Registered(last.email, last.password)
        /\ ~IsToken(last.resp.body) => ClientView(last.resp) = InvalidCredentials
        /\ IsToken(last.resp.body) => last.resp.body.claims.sub = last.email

\* C3 as amended: login returns a token exactly when the lookup succeeds,
\* the table holds a user of that email whose stored hash is the hash of
\* the password, and the token can be signed; a login whose lookup raises,
\* or whose token cannot be signed, fails with a server error; every other
\* login fails with the invalid-credentials error; a returned token has
\* sub = the email and expires after the default window.
C3_LoginOutcome ==
    last.op = "login" =>
        /\ IsToken(last.resp.body) <=>
              /\ last.db_ok
              /\ Registered(last.email, last.password)
              /\ algorithm \in SupportedAlgorithms
        /\ IsToken(last.resp.body) =>
              /\ last.resp.status = HTTP_200_OK
              /\ last.resp.body.claims =
                    [sub |-> last.email, exp |-> now + ACCESS_TOKEN_EXPIRE_MINUTES]
        /\ ~IsToken(last.resp.body) =>
              /\ last.resp.body = None
              /\ IF ~last.db_ok \/ Registered(last.email, last.password)
                 THEN last.resp.status = HTTP_500_INTERNAL_SERVER_ERROR
                 ELSE ClientView(last.resp) = InvalidCredentials

\* A login returned a token, some minutes after the start, with both
\* emails registered.
C3_Witness ==
    /\ last.op = "login"
    /\ IsToken(last.resp.body)
    /\ Cardinality(users) = 2
    /\ now > 0

\* The token is one the server's key and algorithm sign.
ValidlySigned(token) ==
    /\ IsToken(token)
    /\ token = jwt_encode(token.claims, SECRET_KEY, algorithm)

\* The identity of the row of this email, None when there is none.
IdentityOf(email) ==
    IF \E u \in users : u.email = email
    THEN LET u == CHOOSE r \in users : r.email = email
         IN  [email |-> u.email, id |-> u.id]
    ELSE None

Unauthorized(resp) ==
    resp.status = HTTP_401_UNAUTHORIZED /\ resp.body = None

\* The resolve call presented a validly signed, unexpired token with a sub.
ResolvedGoodToken ==
    /\ last.op = "resolve"
    /\ ValidlySigned(last.token)
    /\ last.token.claims.exp >= now
    /\ last.token.claims.sub # NoSub

\* C4 as stated: for a validly signed, unexpired token with sub = e,
\* resolve returns {email: e, id: the id of e's row} exactly when a user e
\* exists, and fails with the authentication error in every other case.
C4_ResolveIffUser ==
    ResolvedGoodToken =>
        IF IdentityOf(last.token.claims.sub) # None
        THEN last.resp.body = IdentityOf(last.token.claims.sub)
        ELSE Unauthorized(last.resp)

\* C4 as amended: for a validly signed, unexpired token with sub = e whose
\* user lookup succeeds, resolve returns {email: e, id: the id of e's row}
\* exactly when a user e exists and fails with the authentication error
\* otherwise; when the lookup raises, resolve fails with a server error and
\* returns no identity.
C4_ResolveOutcome ==
    ResolvedGoodToken =>
        IF ~last.db_ok
        THEN /\ last.resp.status = HTTP_500_INTERNAL_SERVER_ERROR
             /\ last.resp.body = None
        ELSE IF IdentityOf(last.token.claims.sub) # None
        THEN /\ last.resp.status = HTTP_200_OK
             /\ last.resp.body = IdentityOf(last.token.claims.sub)
        ELSE Unauthorized(last.resp)

\* The token a register call returned resolved to the row that call made.
C4_Witness ==
    \E i \in RegIds :
        /\ ResolvedGoodToken
        /\ last.token = reg[i].resp.body
        /\ last.resp.body = [email |-> reg[i].email, id |-> reg[i].row_id]
        /\ reg[i].row_id = 2

\* A validly signed token for an email without a row was refused.
C4_WitnessOrphan ==
    /\ ResolvedGoodToken
    /\ last.db_ok
    /\ Unauthorized(last.resp)
    /\ users # {}

DuplicateUser ==
    [status |-> HTTP_400_BAD_REQUEST, detail |-> "Email already registered",
     body |-> None]

\* Request i takes its first step, the existence check, for an email that
\* has a row.
ChecksTakenEmail(i) ==
    /\ reg[i].pc = "idle" /\ reg'[i].pc # "idle"
    /\ \E u \in users : u.email = reg'[i].email

\* C5 as stated: a register call for an email that already has a row fails
\* with the duplicate-user error and leaves the table, and so the stored
\* hash, unchanged.
C5_DuplicateRejected ==
    [][\A i \in RegIds :
          ChecksTakenEmail(i) =>
              /\ reg'[i].pc = "done"
              /\ ClientView(reg'[i].resp) = DuplicateUser
              /\ users' = users]_vars

\* C5 as amended: a register call for an email that already has a row ends
\* at its existence check without a token and leaves the table, and so the
\* stored hash, unchanged; it fails with the duplicate-user error when the
\* check's query succeeds, and with a server error when the query raises.
C5_DuplicateOrServerError ==
    [][\A i \in RegIds :
          ChecksTakenEmail(i) =>
              /\ reg'[i].pc = "done"
              /\ reg'[i].resp.body = None
              /\ reg'[i].password_hash = None
              /\ users' = users
              /\ IF reg'[i].resp.cause = "SQLAlchemyError at check"
                 THEN reg'[i].resp.status = HTTP_500_INTERNAL_SERVER_ERROR
                 ELSE ClientView(reg'[i].resp) = DuplicateUser]_vars

\* A second register for the email of a committed first one was refused as
\* a duplicate, and the row still holds the first call's hash.
C5_Witness ==
    \E i \in RegIds, j \in RegIds :
        /\ Created(i)
        /\ reg[j].pc = "done" /\ reg[j].email = reg[i].email
        /\ ClientView(reg[j].resp) = DuplicateUser
        /\ \E u \in users :
              u.email = reg[i].email /\ u.password_hash = reg[i].password_hash

\* The answered login named an email without a row.
LoginAbsent ==
    /\ last.op = "login" /\ last.db_ok
    /\ \A u \in users : u.email # last.email

\* The answered login named a row's email with a password that is not the
\* registered one.
LoginWrongPassword ==
    /\ last.op = "login" /\ last.db_ok
    /\ \E u \in users : u.email = last.email
    /\ ~Registered(last.email, last.password)

\* C6: what the client sees of a login that failed for want of the user is
\* what it sees of any login that fails for a wrong password, and the other
\* way round.
C6_FailuresIndistinguishable ==
    \A email \in Emails, password \in Passwords :
        LET other == login_for_access_token(email, password, TRUE, now)
            absent == \A u \in users : u.email # email
            wrong == (\E u \in users : u.email = email)
                         /\ ~Registered(email, password)
        IN  /\ (LoginAbsent /\ wrong) =>
                  /\ ~IsToken(last.resp.body) /\ ~IsToken(other.body)
                  /\ ClientView(last.resp) = ClientView(other)
            /\ (LoginWrongPassword /\ absent) =>
                  /\ ~IsToken(last.resp.body) /\ ~IsToken(other.body)
                  /\ ClientView(last.resp) = ClientView(other)

\* A login for an unknown email was answered while another email is
\* registered, so a wrong-password login exists to compare it with.
C6_Witness ==
    /\ LoginAbsent
    /\ users # {}
    /\ last.resp.cause = "user not found"

\* C7: every 401 of resolve shows the client the same thing, whatever the
\* cause: here, what it shows for a malformed token.
C7_UniformAuthenticationError ==
    (last.op = "resolve" /\ last.resp.status = HTTP_401_UNAUTHORIZED) =>
        ClientView(last.resp) = ClientView(get_current_user(Malformed, TRUE, now))

\* Token verification at time t with the server's key and algorithm.
Accepts(token, alg, t) == jwt_decode(token, SECRET_KEY, alg, t).ok

\* Instants after the present one.
LaterBy == {1, ACCESS_TOKEN_EXPIRE_MINUTES, ACCESS_TOKEN_EXPIRE_MINUTES + 1}

\* C8: create_access_token sets exp to now + ttl whenever a ttl is given and
\* to now + the default only when none is; a token issued with a ttl of 0
\* or less is refused by verification at every later time.
C8_IssueHonoursTtl ==
    (last.op = "issue" /\ IsToken(last.resp.body)) =>
        /\ last.resp.body.claims.exp =
              now + (IF last.delta = None THEN ACCESS_TOKEN_EXPIRE_MINUTES
                                          ELSE last.delta.minutes)
        /\ (last.delta # None /\ last.delta.minutes <= 0) =>
              \A d \in LaterBy : ~Accepts(last.resp.body, algorithm, now + d)

DecodeErrors ==
    {"JWTError: malformed", "JWTError: algorithm", "JWTError: signature",
     "ExpiredSignatureError"}

\* C9: a token the server signed is accepted until its expiry and refused
\* after it.  A resolve of it after exp is a 401; a resolve of it up to exp
\* is never refused by the codec, and returns the identity when the lookup
\* succeeds and the user's row exists.  No step makes an accepted token
\* refused while the clock has not passed its exp, and no step makes a
\* refused token accepted again (verification reads the token, the clock
\* and the settings only, so the steps that change one of these decide).
C9_TokenLifecycle ==
    /\ []((last.op = "resolve" /\ ValidlySigned(last.token)) =>
            /\ last.token.claims.exp < now => Unauthorized(last.resp)
            /\ last.token.claims.exp >= now =>
                  /\ last.resp.cause \notin DecodeErrors
                  /\ ( /\ last.db_ok
                       /\ IdentityOf(last.token.claims.sub) # None )
                        => last.resp.body = IdentityOf(last.token.claims.sub))
    /\ [][(now' # now \/ algorithm' # algorithm) =>
          \A token \in Presentable :
            /\ ~Accepts(token, algorithm, now) => ~Accepts(token, algorithm', now')
            /\ ( /\ Accepts(token, algorithm, now)
                 /\ now' <= token.claims.exp )
                  => Accepts(token, algorithm', now')]_vars

\* The token a register call returned resolved in the last minute of its
\* validity, after other calls, for the row that call made.
C9_WitnessValid ==
    \E i \in RegIds :
        /\ last.op = "resolve" /\ last.token = reg[i].resp.body
        /\ IsToken(last.token) /\ last.token.claims.exp = now
        /\ last.resp.body = [email |-> reg[i].email, id |-> reg[i].row_id]

\* The token a register call returned was refused once its exp had passed.
C9_Witness ==
    \E i \in RegIds :
        /\ last.op = "resolve" /\ last.token = reg[i].resp.body
        /\ IsToken(last.token) /\ last.token.claims.exp < now
        /\ Unauthorized(last.resp)
        /\ last.resp.cause = "ExpiredSignatureError"

\* C10: when the persistence step of register fails, the call ends with the
\* persistence error and no token, and the table is as it was.
C10_AtomicCreateOrFail ==
    [][\A i \in RegIds :
          ( /\ reg[i].pc = "commit" /\ reg'[i].pc = "done"
            /\ reg'[i].resp.detail = RegistrationFailed )
              => /\ reg'[i].resp.status = HTTP_500_INTERNAL_SERVER_ERROR
                 /\ reg'[i].resp.body = None
                 /\ users' = users]_vars

\* The step answers a login or a resolve call.
AnswersLoginOrResolve ==
    last' # last /\ last'.op \in {"login", "resolve"}

\* The step ends register request i with a token.
RegisterSucceeds(i) ==
    reg[i].pc = "commit" /\ IsToken(reg'[i].resp.body)

\* C11: no step updates or deletes a row of the users table; a step that
\* answers a login or a resolve, with or without success, leaves the table
\* as it is; a register that succeeds adds exactly one row, its own, and
\* leaves every other row as it is; and the table changes in no other way
\* than by one row that the commit of a register adds.
C11_DirectoryFrame ==
    [][/\ users \subseteq users'
       /\ AnswersLoginOrResolve => users' = users
       /\ \A i \in RegIds :
             RegisterSucceeds(i) =>
                 users' = users \cup
                     {[id |-> reg'[i].row_id, email |-> reg[i].email,
                       password_hash |-> reg[i].password_hash]}
                 /\ Cardinality(users') = Cardinality(users) + 1
       /\ users' # users =>
             \E i \in RegIds :
                 /\ reg[i].pc = "commit" /\ reg'[i].row_id # 0
                 /\ Cardinality(users' \ users) = 1]_vars

\* Two registers succeeded, a login and then a resolve were answered, and
\* both rows still hold what their register wrote.
C11_Witness ==
    \E i \in RegIds, j \in RegIds :
        /\ i # j
        /\ IsToken(reg[i].resp.body) /\ IsToken(reg[j].resp.body)
        /\ last.op = "resolve" /\ last.resp.status = HTTP_200_OK
        /\ users = {[id |-> reg[r].row_id, email |-> reg[r].email,
                     password_hash |-> reg[r].password_hash] : r \in {i, j}}

\* The token of the last call decodes at the current time (signature,
\* algorithm and expiry pass) and its payload has no sub.
VerifiedWithoutSub ==
    /\ IsToken(last.token)
    /\ LET decoded == jwt_decode(last.token, SECRET_KEY, algorithm, now)
       IN  decoded.ok /\ decoded.payload.sub = NoSub

\* C12: a resolve of a token that decodes but has no sub is answered with
\* the 401 that token validation raises for the missing sub, and that
\* answer is the same whether or not the users table can be queried: the
\* table is not consulted.
C12_NoSubRejectedBeforeLookup ==
    (last.op = "resolve" /\ VerifiedWithoutSub) =>
        /\ validate_token(last.token, now).status = HTTP_401_UNAUTHORIZED
        /\ validate_token(last.token, now).cause = "sub claim missing"
        /\ last.resp = validate_token(last.token, now)
        /\ Unauthorized(last.resp)
        /\ \A db_ok \in BOOLEAN :
               get_current_user(last.token, db_ok, now) = last.resp

\* A token without sub that decodes was presented while the table holds a
\* user, and the resolve was refused.
C12_Witness ==
    /\ last.op = "resolve" /\ VerifiedWithoutSub
    /\ users # {}
    /\ last.resp.status = HTTP_401_UNAUTHORIZED

\* Register request i reached create_access_token: it ended with the token
\* or with the error of a failed jwt.encode.
ReachedIssuance(i) ==
    reg[i].pc = "done" /\ reg[i].resp.cause \in {"token issued", "jwt.encode raised"}

\* Register request i ended because its token could not be issued.
IssuanceFailed(i) ==
    reg[i].pc = "done" /\ reg[i].resp.cause = "jwt.encode raised"

\* The row register request i wrote is in the users table.
RowPersisted(i) ==
    /\ Created(i)
    /\ [id |-> reg[i].row_id, email |-> reg[i].email,
        password_hash |-> reg[i].password_hash] \in users

\* Request j takes its existence check for the email of a register whose
\* token could not be issued.
ChecksEmailOfFailedIssuance(j) ==
    /\ reg[j].pc = "idle" /\ reg'[j].pc # "idle"
    /\ \E i \in RegIds : IssuanceFailed(i) /\ reg[i].email = reg'[j].email

\* A register reaches token issuance only with its row committed; when the
\* issuance fails the call is answered 500 without a token and the row stays.
IssuanceAfterCommit ==
    \A i \in RegIds :
        /\ ReachedIssuance(i) => RowPersisted(i)
        /\ IssuanceFailed(i) =>
               /\ reg[i].resp.status = HTTP_500_INTERNAL_SERVER_ERROR
               /\ reg[i].resp.body = None
               /\ RowPersisted(i)

\* C13 as stated: a register issues its token only after its row is
\* committed, a failed issuance is answered with a server error and no token
\* while the row stays, and a later register for that email fails as
\* already registered.
C13_LaterRegisterDuplicate ==
    /\ []IssuanceAfterCommit
    /\ [][\A j \in RegIds :
             ChecksEmailOfFailedIssuance(j) =>
                 /\ reg'[j].pc = "done"
                 /\ ClientView(reg'[j].resp) = DuplicateUser]_vars

\* C13 as amended: a register issues its token only after its row is
\* committed, a failed issuance is answered with a server error and no token
\* while the row stays, and a later register for that email ends at its
\* existence check without a token and without a write: as already
\* registered when the check's query succeeds, with a server error when the
\* query raises.
C13_IssuanceOutsideTransaction ==
    /\ []IssuanceAfterCommit
    /\ [][\A j \in RegIds :
             ChecksEmailOfFailedIssuance(j) =>
                 /\ reg'[j].pc = "done"
                 /\ reg'[j].resp.body = None
                 /\ users' = users
                 /\ IF reg'[j].resp.cause = "SQLAlchemyError at check"
                    THEN reg'[j].resp.status = HTTP_500_INTERNAL_SERVER_ERROR
                    ELSE ClientView(reg'[j].resp) = DuplicateUser]_vars

\* A register was answered 500 because its token could not be issued, its
\* row is in the table, and a later register for the same email was refused
\* as already registered.
C13_Witness ==
    \E i \in RegIds, j \in RegIds :
        /\ i # j
        /\ IssuanceFailed(i) /\ RowPersisted(i)
        /\ reg[i].resp.status = HTTP_500_INTERNAL_SERVER_ERROR
        /\ reg[j].pc = "done" /\ reg[j].email = reg[i].email
        /\ ClientView(reg[j].resp) = DuplicateUser

====
